---- MODULE Spec2Model ----
(***************************************************************************)
(* Model of the gobotlcd driver (src/liquidcrystallcd.go): an HD44780      *)
(* character LCD driven in 4-bit mode through a PCF8574 I2C expander.      *)
(* The two driver types of the file, LiquidCrystalLCD and GobotLCD, have   *)
(* the same fields and the same code apart from the sleep durations, so    *)
(* one state machine models both.  Every public method is one action; the  *)
(* bytes it hands to connection.WriteByte are recorded in `log`.           *)
(***************************************************************************)
EXTENDS Integers, Sequences, FiniteSets, TLC

(***************************************************************************)
(* Program constants (src/liquidcrystallcd.go:11-53).                      *)
(***************************************************************************)
lcdClearDisplay == 1
lcdReturnHome == 2
lcdEntryModeSet == 4
lcdDisplayControl == 8
lcdCursorShift == 16
lcdFunctionSet == 32
lcdSetCGramAddr == 64
lcdSetDDRAMAddr == 128

lcdEntryLeft == 2
lcdEntryShiftIncrement == 1
lcdEntryShiftDecrement == 0

lcdDisplayOn == 4
lcdCursorOn == 2
lcdCursorOff == 0
lcdBlinkOn == 1
lcdBlinkOff == 0

lcdDisplayMove == 8
lcdMoveRight == 4
lcdMoveLeft == 0

lcd8BitMode == 16
lcd4BitMode == 0
lcd2Line == 8
lcd1Line == 0
lcd5x10Dots == 4
lcd5x8Dots == 0

lcdBacklight == 8
lcdNoBacklight == 0

en == 4
rs == 1

DotSize5x10 == lcd5x10Dots
DotSize5x8 == lcd5x8Dots

DefaultBus == 1
DefaultAddress == 39

(***************************************************************************)
(* Go's byte arithmetic: 8-bit unsigned, operators &, |, ^ (complement),   *)
(* <<, + and - wrap modulo 256.                                            *)
(***************************************************************************)
Byte == 0..255

BitAt(x, i) == (x \div (2 ^ i)) % 2

\* a & b on 4-bit values, tabulated once
AndNibble ==
    [a \in 0..15 |-> [b \in 0..15 |->
        BitAt(a, 0) * BitAt(b, 0) + 2 * BitAt(a, 1) * BitAt(b, 1)
        + 4 * BitAt(a, 2) * BitAt(b, 2) + 8 * BitAt(a, 3) * BitAt(b, 3)]]

And(a, b) == 16 * AndNibble[a \div 16][b \div 16] + AndNibble[a % 16][b % 16]

Or(a, b) == a + b - And(a, b)

Not(a) == 255 - a

Shl(a, n) == (a * (2 ^ n)) % 256

Add(a, b) == (a + b) % 256

Sub(a, b) == (a - b + 256) % 256

(***************************************************************************)
(* Errors.  nil is the empty sequence; an error is the sequence of the     *)
(* underlying failures it reports, so that fmt.Errorf("%v\n%v", err, e)    *)
(* in Halt is concatenation.  A failure is identified by the call that     *)
(* produced it: the at-th WriteByte of the operation, or GetConnection.    *)
(***************************************************************************)
Nil == <<>>

IOError(at) == <<[kind |-> "io", at |-> at]>>

ConnectionError == <<[kind |-> "conn", at |-> 0]>>

(***************************************************************************)
(* The bus.  A function that writes to the bus is modelled as a function   *)
(* on the record acc of what the operation has done so far: acc.out, the   *)
(* WriteByte calls made, in order, and acc.err, the error being returned.  *)
(* Every function of the driver returns at once the error of a call it     *)
(* makes, so once acc.err is set nothing more is written.  An entry of     *)
(* acc.out holds the byte passed to WriteByte, whether the call succeeded, *)
(* and the value of lcd.backLight when it was made.  F is the set of call  *)
(* numbers (within the operation) at which the byte sink fails.            *)
(***************************************************************************)
Ok == [out |-> <<>>, err |-> Nil]

\* lcd.write: connection.WriteByte(val)
write(val, bl, acc, F) ==
    IF acc.err # Nil THEN acc
    ELSE [out |-> Append(acc.out, [val |-> val, ok |-> (Len(acc.out) + 1) \notin F, bl |-> bl]),
          err |-> IF (Len(acc.out) + 1) \in F THEN IOError(Len(acc.out) + 1) ELSE Nil]

expandWrite(val, bl, acc, F) == write(Or(val, bl), bl, acc, F)

\* pulseEnable without the write that releases the enable line
pulseEnableNoRelease(val, bl, acc, F) == expandWrite(Or(val, en), bl, acc, F)

\* pulseEnable releasing the enable line with lcd.write instead of lcd.expandWrite
pulseEnableRaw(val, bl, acc, F) ==
    write(And(val, Not(en)), bl, expandWrite(Or(val, en), bl, acc, F), F)

\* pulseEnable clearing the enable bit first and setting it last
pulseEnableInverted(val, bl, acc, F) ==
    expandWrite(Or(val, en), bl, expandWrite(And(val, Not(en)), bl, acc, F), F)

pulseEnable(val, bl, acc, F) ==
    expandWrite(And(val, Not(en)), bl, expandWrite(Or(val, en), bl, acc, F), F)

write4bits(val, bl, acc, F) == pulseEnable(val, bl, expandWrite(val, bl, acc, F), F)

\* send with the low nibble sent first
sendLowFirst(val, mode, bl, acc, F) ==
    LET high == And(val, 240)
        low == And(Shl(val, 4), 240)
    IN  write4bits(Or(high, mode), bl, write4bits(Or(low, mode), bl, acc, F), F)

\* send going on to the low nibble whatever the high nibble's transfer returned
sendUnchecked(val, mode, bl, acc, F) ==
    LET high == And(val, 240)
        low == And(Shl(val, 4), 240)
    IN  write4bits(Or(low, mode), bl,
                   [out |-> write4bits(Or(high, mode), bl, acc, F).out, err |-> Nil], F)

send(val, mode, bl, acc, F) ==
    LET high == And(val, 240)
        low == And(Shl(val, 4), 240)
    IN  write4bits(Or(low, mode), bl, write4bits(Or(high, mode), bl, acc, F), F)

command(val, bl, acc, F) == send(val, 0, bl, acc, F)

(***************************************************************************)
(* State: the fields of the driver struct, the CustomCharacter object the  *)
(* caller registers, the dot size the constructor was given, the type of   *)
(* the driver (variant), and the record of the last operation: its name,   *)
(* its arguments (for Start, those it passes to GetConnection), the values *)
(* it returned, the driver's mode bytes when it was called (last.pre), the *)
(* time it slept before its first WriteByte call (last.slept, in           *)
(* microseconds) and the WriteByte calls it made (log).  threads is where   *)
(* each of two goroutines that call a toggle of the driver stands.         *)
(***************************************************************************)
VARIABLES displFn, displCntrl, displMode, cols, rows, backLight,
          config, connection, charmap, dotSize, variant, threads, last, log

lcd == <<displFn, displCntrl, displMode, cols, rows, backLight, config, connection>>

vars == <<displFn, displCntrl, displMode, cols, rows, backLight,
          config, connection, charmap, dotSize, variant, threads, last, log>>

\* i2c.Config: the optional bus and address overrides; NoValue = not set.
NoValue == -1

NoConnection == [address |-> NoValue, bus |-> NoValue]

\* GetBusOrDefault taking bus 0 for no bus given
GetBusOrDefaultZero(d) == IF config.bus <= 0 THEN d ELSE config.bus

GetBusOrDefault(d) == IF config.bus = NoValue THEN d ELSE config.bus

GetAddressOrDefault(d) == IF config.address = NoValue THEN d ELSE config.address

ModeBytes == [displFn |-> displFn, displCntrl |-> displCntrl,
              displMode |-> displMode, backLight |-> backLight]

Returned(name, args, err, n) ==
    [name |-> name, args |-> args, err |-> err, n |-> n, pre |-> ModeBytes, slept |-> 0]

\* The goroutines that call the driver concurrently, and one that has made no call.
Threads == {1, 2}

IdleThread == [pc |-> "idle", op |-> "", tmp |-> 0, k |-> 0, raced |-> FALSE]

\* The two driver types of the file.
Variants == {"LiquidCrystalLCD", "GobotLCD"}

\* time.Sleep durations, in microseconds
Microsecond == 1

Millisecond == 1000 * Microsecond

\* init: the sleep between GetConnection and the first lcd.write
initSettle(v) == IF v = "LiquidCrystalLCD" THEN 50 * Microsecond ELSE 50 * Millisecond

\* the constructor applying the dot size whatever the number of rows
NewDisplFnAnyRows(r, d) ==
    LET f0 == Or(Or(lcd4BitMode, lcd1Line), lcd5x8Dots)
        f1 == IF r > 1 THEN Or(f0, lcd2Line) ELSE f0
    IN  IF d # DotSize5x8 THEN Or(f1, lcd5x10Dots) ELSE f1

\* NewLiquidCrystalLCD / New
NewDisplFn(r, d) ==
    LET f0 == Or(Or(lcd4BitMode, lcd1Line), lcd5x8Dots)
        f1 == IF r > 1 THEN Or(f0, lcd2Line) ELSE f0
    IN  IF d # DotSize5x8 /\ r = 1 THEN Or(f1, lcd5x10Dots) ELSE f1

\* NewLiquidCrystalLCD(a, c, r, dotSize, options...) or New(a, c, r, dotSize,
\* options...), and NewCharacter(bitmap)
New(v, c, r, d, cfg, bitmap) ==
    /\ variant = v
    /\ threads = [t \in Threads |-> IdleThread]
    /\ displFn = NewDisplFn(r, d)
    /\ dotSize = d
    /\ displCntrl = 0
    /\ displMode = 0
    /\ cols = c
    /\ rows = r
    /\ backLight = lcdNoBacklight
    /\ config = cfg
    /\ connection = NoConnection
    /\ charmap = [CharMap |-> bitmap, Register |-> 0]
    /\ last = [name |-> "New", args |-> <<c, r, d>>, err |-> Nil, n |-> 0,
               pre |-> [displFn |-> 0, displCntrl |-> 0, displMode |-> 0, backLight |-> 0],
               slept |-> 0]
    /\ log = <<>>

\* A method called before Start dereferences the nil connection and panics.
Started == connection # NoConnection

(***************************************************************************)
(* The bus traffic of the methods.                                         *)
(***************************************************************************)
\* Clear sending the ReturnHome command
doClearAsHome(bl, acc, F) == command(lcdReturnHome, bl, acc, F)

doClear(bl, acc, F) == command(lcdClearDisplay, bl, acc, F)

doHome(bl, acc, F) == command(lcdReturnHome, bl, acc, F)

\* lcd.displCntrl = c; return lcd.command(lcdDisplayControl | lcd.displCntrl)
doDisplayControl(c, bl, acc, F) == command(Or(lcdDisplayControl, c), bl, acc, F)

\* the EntryMode byte sent under the DisplayControl opcode
doEntryModeAsControl(m, bl, acc, F) == command(Or(lcdDisplayControl, m), bl, acc, F)

\* lcd.displMode = m; return lcd.command(lcdEntryModeSet | lcd.displMode)
doEntryMode(m, bl, acc, F) == command(Or(lcdEntryModeSet, m), bl, acc, F)

\* init4BitMode committing 4-bit mode after two 0x3 nibbles instead of three
init4BitModeShort(bl, acc, F) ==
    write4bits(Shl(3, 4), bl,
        write4bits(Shl(2, 4), bl,
            write4bits(Shl(3, 4), bl,
                write4bits(Shl(3, 4), bl, acc, F), F), F), F)

init4BitMode(bl, acc, F) ==
    write4bits(Shl(2, 4), bl,
        write4bits(Shl(3, 4), bl,
            write4bits(Shl(3, 4), bl,
                write4bits(Shl(3, 4), bl, acc, F), F), F), F)

\* init up to and including the FunctionSet command
initFunctionSet(F) ==
    command(Or(lcdFunctionSet, displFn), backLight,
        init4BitMode(backLight, write(backLight, backLight, Ok, F), F), F)

\* lcd.displCntrl and lcd.displMode as init assigns them
initDisplCntrl == Or(Or(Or(lcdDisplayOn, lcdCursorOff), lcdBlinkOff), lcdDisplayOn)

initDisplMode == Or(lcdEntryLeft, lcdEntryShiftDecrement)

\* init from DisplayOn to Clear, and from the EntryModeSet command to Home
initClear(acc, F) == doClear(backLight, doDisplayControl(initDisplCntrl, backLight, acc, F), F)

\* init returning the cursor home before it sets the entry mode
initHomeFirst(acc, F) == doEntryMode(initDisplMode, backLight, doHome(backLight, acc, F), F)

initHome(acc, F) == doHome(backLight, doEntryMode(initDisplMode, backLight, acc, F), F)

(***************************************************************************)
(* Start: acquire the connection (acquired = FALSE: GetConnection fails),  *)
(* then run the initialisation sequence.  displCntrl is assigned once the  *)
(* FunctionSet command has been sent, displMode once Clear has returned.   *)
(***************************************************************************)
Start(acquired, F) ==
    IF ~acquired
    THEN /\ last' = Returned("Start", <<GetAddressOrDefault(DefaultAddress),
                                        GetBusOrDefault(DefaultBus)>>, ConnectionError, 0)
         /\ log' = <<>>
         \* lcd.connection is assigned what GetConnection returned
         /\ connection' = NoConnection
         /\ UNCHANGED <<displFn, displCntrl, displMode, cols, rows, backLight, config, charmap, dotSize, variant, threads>>
    ELSE LET a3 == initFunctionSet(F)
             a5 == initClear(a3, F)
             a7 == initHome(a5, F)
         IN  /\ connection' = [address |-> GetAddressOrDefault(DefaultAddress),
                               bus |-> GetBusOrDefault(DefaultBus)]
             /\ displCntrl' = IF a3.err = Nil THEN initDisplCntrl ELSE displCntrl
             /\ displMode' = IF a5.err = Nil THEN initDisplMode ELSE displMode
             /\ last' = [Returned("Start", <<GetAddressOrDefault(DefaultAddress),
                                             GetBusOrDefault(DefaultBus)>>, a7.err, 0)
                         EXCEPT !.slept = initSettle(variant)]
             /\ log' = a7.out
             /\ UNCHANGED <<displFn, cols, rows, backLight, config, charmap, dotSize, variant, threads>>

(***************************************************************************)
(* Commands without a persistent bit.                                      *)
(***************************************************************************)
Stateless(name, r) ==
    /\ Started
    /\ last' = Returned(name, <<>>, r.err, 0)
    /\ log' = r.out
    /\ UNCHANGED <<displFn, displCntrl, displMode, cols, rows, backLight,
                   config, connection, charmap, dotSize, variant, threads>>

Clear(F) == Stateless("Clear", doClear(backLight, Ok, F))

Home(F) == Stateless("Home", doHome(backLight, Ok, F))

ShiftDisplayLeft(F) ==
    Stateless("ShiftDisplayLeft",
              command(Or(Or(lcdCursorShift, lcdDisplayMove), lcdMoveLeft), backLight, Ok, F))

ShiftDisplayRight(F) ==
    Stateless("ShiftDisplayRight",
              command(Or(Or(lcdCursorShift, lcdDisplayMove), lcdMoveRight), backLight, Ok, F))

(***************************************************************************)
(* Toggles of the DisplayControl byte.                                     *)
(***************************************************************************)
\* a DisplayControl toggle that keeps the old byte when the command fails
SetDisplayControlRollback(name, c, F) ==
    LET r == doDisplayControl(c, backLight, Ok, F)
    IN  /\ Started
        /\ displCntrl' = IF r.err = Nil THEN c ELSE displCntrl
        /\ last' = Returned(name, <<>>, r.err, 0)
        /\ log' = r.out
        /\ UNCHANGED <<displFn, displMode, cols, rows, backLight, config, connection, charmap, dotSize, variant, threads>>

SetDisplayControl(name, c, F) ==
    LET r == doDisplayControl(c, backLight, Ok, F)
    IN  /\ Started
        /\ displCntrl' = c
        /\ last' = Returned(name, <<>>, r.err, 0)
        /\ log' = r.out
        /\ UNCHANGED <<displFn, displMode, cols, rows, backLight, config, connection, charmap, dotSize, variant, threads>>

DisplayOn(F) == SetDisplayControl("DisplayOn", Or(displCntrl, lcdDisplayOn), F)

DisplayOff(F) == SetDisplayControl("DisplayOff", And(displCntrl, Not(lcdDisplayOn)), F)

UnderlineOn(F) == SetDisplayControl("UnderlineOn", Or(displCntrl, lcdCursorOn), F)

\* UnderlineOff clearing the blink bit
UnderlineOffBlink(F) == SetDisplayControl("UnderlineOff", And(displCntrl, Not(lcdBlinkOn)), F)

UnderlineOff(F) == SetDisplayControl("UnderlineOff", And(displCntrl, Not(lcdCursorOn)), F)

CursorOn(F) == SetDisplayControl("CursorOn", Or(displCntrl, lcdBlinkOn), F)

CursorOff(F) == SetDisplayControl("CursorOff", And(displCntrl, Not(lcdBlinkOn)), F)

(***************************************************************************)
(* Toggles of the EntryMode byte.                                          *)
(***************************************************************************)
SetEntryMode(name, m, F) ==
    LET r == doEntryMode(m, backLight, Ok, F)
    IN  /\ Started
        /\ displMode' = m
        /\ last' = Returned(name, <<>>, r.err, 0)
        /\ log' = r.out
        /\ UNCHANGED <<displFn, displCntrl, cols, rows, backLight, config, connection, charmap, dotSize, variant, threads>>

PrintLeftToRight(F) == SetEntryMode("PrintLeftToRight", Or(displMode, lcdEntryLeft), F)

PrintRightToLeft(F) == SetEntryMode("PrintRightToLeft", And(displMode, Not(lcdEntryLeft)), F)

AutoScrollOn(F) == SetEntryMode("AutoScrollOn", Or(displMode, lcdEntryShiftIncrement), F)

\* AutoScrollOff clearing the direction bit
AutoScrollOffLeft(F) == SetEntryMode("AutoScrollOff", And(displMode, Not(lcdEntryLeft)), F)

AutoScrollOff(F) == SetEntryMode("AutoScrollOff", And(displMode, Not(lcdEntryShiftIncrement)), F)

(***************************************************************************)
(* Backlight.                                                              *)
(***************************************************************************)
SetBacklight(name, b, F) ==
    LET r == expandWrite(0, b, Ok, F)
    IN  /\ Started
        /\ backLight' = b
        /\ last' = Returned(name, <<>>, r.err, 0)
        /\ log' = r.out
        /\ UNCHANGED <<displFn, displCntrl, displMode, cols, rows, config, connection, charmap, dotSize, variant, threads>>

BacklightOn(F) == SetBacklight("BacklightOn", lcdBacklight, F)

BacklightOff(F) == SetBacklight("BacklightOff", lcdNoBacklight, F)

(***************************************************************************)
(* SetCursor.  rowOffset is indexed with the clamped row; an index outside *)
(* the 4-entry table is a run-time panic (no byte is written).             *)
(***************************************************************************)
rowOffset == <<0, 64, 20, 84>>

Panic == <<[kind |-> "panic", at |-> 0]>>

clampRow(row) == IF row > Sub(rows, 1) THEN Sub(rows, 1) ELSE row

\* the column clamped to cols instead of cols - 1
clampColOffByOne(col) == IF col > cols THEN cols ELSE col

clampCol(col) == IF col > Sub(cols, 1) THEN Sub(cols, 1) ELSE col

SetCursor(col, row, F) ==
    LET r == IF clampRow(row) >= Len(rowOffset)
             THEN [out |-> <<>>, err |-> Panic]
             ELSE command(Or(lcdSetDDRAMAddr, Add(clampCol(col), rowOffset[clampRow(row) + 1])),
                          backLight, Ok, F)
    IN  /\ Started
        /\ last' = Returned("SetCursor", <<col, row>>, r.err, 0)
        /\ log' = r.out
        /\ UNCHANGED <<displFn, displCntrl, displMode, cols, rows, backLight,
                       config, connection, charmap, dotSize, variant, threads>>

(***************************************************************************)
(* The loops of RegisterCharacter and Write: send(str[i], rs) for i from   *)
(* the given index on, stopping at the first error.  The result's i is the *)
(* loop variable when the loop is left: the number of bytes sent           *)
(* completely.                                                             *)
(***************************************************************************)
\* the loop counting the byte whose send failed
RECURSIVE sendEachCountsFailed(_, _, _, _, _)
sendEachCountsFailed(str, i, bl, acc, F) ==
    IF i > Len(str) THEN [out |-> acc.out, err |-> acc.err, i |-> i - 1]
    ELSE LET a == send(str[i], rs, bl, acc, F)
         IN  IF a.err # Nil THEN [out |-> a.out, err |-> a.err, i |-> i]
             ELSE sendEachCountsFailed(str, i + 1, bl, a, F)

RECURSIVE sendEach(_, _, _, _, _)
sendEach(str, i, bl, acc, F) ==
    IF i > Len(str) THEN [out |-> acc.out, err |-> acc.err, i |-> i - 1]
    ELSE LET a == send(str[i], rs, bl, acc, F)
         IN  IF a.err # Nil THEN [out |-> a.out, err |-> a.err, i |-> i - 1]
             ELSE sendEach(str, i + 1, bl, a, F)

\* RegisterCharacter addressing CGRAM with the slot not shifted
doRegisterCharacterNoShift(location, map, bl, F) ==
    sendEach(map, 1, bl, command(Or(lcdSetCGramAddr, And(location, 7)), bl, Ok, F), F)

doRegisterCharacter(location, map, bl, F) ==
    sendEach(map, 1, bl, command(Or(lcdSetCGramAddr, Shl(And(location, 7), 3)), bl, Ok, F), F)

RegisterCharacter(location, F) ==
    LET r == doRegisterCharacter(location, charmap.CharMap, backLight, F)
    IN  /\ Started
        /\ charmap' = IF r.err = Nil THEN [charmap EXCEPT !.Register = And(location, 7)]
                      ELSE charmap
        /\ last' = Returned("RegisterCharacter", <<location>>, r.err, 0)
        /\ log' = r.out
        /\ UNCHANGED <<displFn, displCntrl, displMode, cols, rows, backLight,
                       config, connection, dotSize, variant, threads>>

Write(str, F) ==
    LET r == sendEach(str, 1, backLight, Ok, F)
    IN  /\ Started
        /\ last' = Returned("Write", str, r.err, r.i)
        /\ log' = r.out
        /\ UNCHANGED <<displFn, displCntrl, displMode, cols, rows, backLight,
                       config, connection, charmap, dotSize, variant, threads>>

(***************************************************************************)
(* Halt: Clear, BacklightOff, CursorOff, DisplayOff, each on the state the *)
(* previous one left and whatever the previous one returned, with the      *)
(* errors gathered.                                                        *)
(***************************************************************************)
\* gatherErrs keeping the first error only
gatherErrsFirst(err, e) == IF err # Nil THEN err ELSE e

gatherErrs(err, e) ==
    IF e # Nil /\ err # Nil THEN err \o e
    ELSE IF e # Nil /\ err = Nil THEN e
    ELSE err

\* a step of Halt: op's bus traffic after the calls acc.out, and the errors gathered
haltStep(acc, r) == [out |-> r.out, err |-> Nil, all |-> gatherErrs(acc.all, r.err)]

haltClear(F) == haltStep([all |-> Nil], doClear(backLight, Ok, F))

haltBacklightOff(F) ==
    LET a == haltClear(F) IN haltStep(a, expandWrite(0, lcdNoBacklight, a, F))

haltCursorOff(F) ==
    LET a == haltBacklightOff(F)
    IN  haltStep(a, doDisplayControl(And(displCntrl, Not(lcdBlinkOn)), lcdNoBacklight, a, F))

haltDisplayOff(F) ==
    LET a == haltCursorOff(F)
    IN  haltStep(a, doDisplayControl(And(And(displCntrl, Not(lcdBlinkOn)), Not(lcdDisplayOn)),
                                     lcdNoBacklight, a, F))

Halt(F) ==
    LET r == haltDisplayOff(F)
    IN  /\ Started
        /\ displCntrl' = And(And(displCntrl, Not(lcdBlinkOn)), Not(lcdDisplayOn))
        /\ backLight' = lcdNoBacklight
        /\ last' = Returned("Halt", <<>>, r.all, 0)
        /\ log' = r.out
        /\ UNCHANGED <<displFn, displMode, cols, rows, config, connection, charmap, dotSize, variant, threads>>

(***************************************************************************)
(* lcd.send(val, mode) called on its own (the codec, for the properties of *)
(* one transmit).                                                          *)
(***************************************************************************)
Send(val, mode, F) ==
    LET r == send(val, mode, backLight, Ok, F)
    IN  /\ Started
        /\ last' = Returned("send", <<val, mode>>, r.err, 0)
        /\ log' = r.out
        /\ UNCHANGED <<displFn, displCntrl, displMode, cols, rows, backLight,
                       config, connection, charmap, dotSize, variant, threads>>

\* lcd.write4bits(val) called on its own (one nibble transfer)
Write4bits(val, F) ==
    LET r == write4bits(val, backLight, Ok, F)
    IN  /\ Started
        /\ last' = Returned("write4bits", <<val>>, r.err, 0)
        /\ log' = r.out
        /\ UNCHANGED <<displFn, displCntrl, displMode, cols, rows, backLight,
                       config, connection, charmap, dotSize, variant, threads>>

(***************************************************************************)
(* Two goroutines, each calling UnderlineOn or CursorOn once on the same   *)
(* driver.  Nothing in the driver orders their accesses, so a call is the  *)
(* steps the code makes, interleaved with the other's: the read of         *)
(* lcd.displCntrl for |=, the write of the result, the read of             *)
(* lcd.displCntrl for the argument of command, and the six WriteByte       *)
(* calls.  raced records that the call and the other goroutine's call      *)
(* overlapped.                                                             *)
(***************************************************************************)
Running(t) == threads[t].pc \notin {"idle", "done"}

Other(t) == CHOOSE u \in Threads : u # t

OpValue(op, d) == IF op = "UnderlineOn" THEN Or(d, lcdCursorOn) ELSE Or(d, lcdBlinkOn)

Go(t, op) ==
    /\ Started
    /\ threads[t].pc = "idle"
    /\ last.name \in {"Start", "go"}
    /\ last.err = Nil
    /\ threads' = [threads EXCEPT
                      ![t] = [pc |-> "load", op |-> op, tmp |-> 0, k |-> 0,
                              raced |-> Running(Other(t))],
                      ![Other(t)].raced = @ \/ Running(Other(t))]
    /\ last' = Returned("go", <<t, op>>, Nil, 0)
    /\ log' = IF last.name = "go" THEN log ELSE <<>>
    /\ UNCHANGED <<displFn, displCntrl, displMode, cols, rows, backLight,
                   config, connection, charmap, dotSize, variant>>

\* the read of lcd.displCntrl |= bit, as an assignment of the bit alone
LoadAssign(t) ==
    /\ threads[t].pc = "load"
    /\ threads' = [threads EXCEPT ![t].pc = "store", ![t].tmp = OpValue(threads[t].op, 0)]
    /\ UNCHANGED <<displFn, displCntrl, displMode, cols, rows, backLight,
                   config, connection, charmap, dotSize, variant, last, log>>

Load(t) ==
    /\ threads[t].pc = "load"
    /\ threads' = [threads EXCEPT ![t].pc = "store",
                                  ![t].tmp = OpValue(threads[t].op, displCntrl)]
    /\ UNCHANGED <<displFn, displCntrl, displMode, cols, rows, backLight,
                   config, connection, charmap, dotSize, variant, last, log>>

Store(t) ==
    /\ threads[t].pc = "store"
    /\ displCntrl' = threads[t].tmp
    /\ threads' = [threads EXCEPT ![t].pc = "arg"]
    /\ UNCHANGED <<displFn, displMode, cols, rows, backLight,
                   config, connection, charmap, dotSize, variant, last, log>>

\* lcdDisplayControl | lcd.displCntrl, the argument of lcd.command
Arg(t) ==
    /\ threads[t].pc = "arg"
    /\ threads' = [threads EXCEPT ![t].pc = "write",
                                  ![t].tmp = Or(lcdDisplayControl, displCntrl)]
    /\ UNCHANGED <<displFn, displCntrl, displMode, cols, rows, backLight,
                   config, connection, charmap, dotSize, variant, last, log>>

\* the next WriteByte call of lcd.command(tmp)
WriteNext(t) ==
    /\ threads[t].pc = "write"
    /\ log' = Append(log, command(threads[t].tmp, backLight, Ok, {}).out[threads[t].k + 1])
    /\ threads' = [threads EXCEPT
                      ![t].k = @ + 1,
                      ![t].pc = IF threads[t].k + 1 = Len(command(0, 0, Ok, {}).out)
                                THEN "done" ELSE "write"]
    /\ UNCHANGED <<displFn, displCntrl, displMode, cols, rows, backLight,
                   config, connection, charmap, dotSize, variant, last>>

(***************************************************************************)
(* Inputs.  F is the set of WriteByte calls of an operation at which the   *)
(* byte sink fails: no call, or one call among the first k.  Halt, which   *)
(* carries on after a failure, is given every combination of failures of   *)
(* its four steps.                                                         *)
(***************************************************************************)
MaxLen == 3

MaxFailAt == 1

NoFail == {}

FailAt(k) == {NoFail} \cup {{i} : i \in 1..k}

\* the number of WriteByte calls of one failure-free transmit, Start and
\* RegisterCharacter
SendWrites == Len(send(0, 0, 0, Ok, NoFail).out)

StartWrites == 1 + Len(init4BitMode(0, Ok, NoFail).out) + 5 * SendWrites

GlyphWrites == 9 * SendWrites

\* the calls at which the sink fails when step i of Halt fails at its
\* p[i]-th call (0: the step does not fail)
HaltFails(p) ==
    LET n1 == IF p[1] = 0 THEN SendWrites ELSE p[1]
        n2 == n1 + 1
        n3 == n2 + (IF p[3] = 0 THEN SendWrites ELSE p[3])
    IN  (IF p[1] = 0 THEN {} ELSE {p[1]})
        \cup (IF p[2] = 0 THEN {} ELSE {n1 + 1})
        \cup (IF p[3] = 0 THEN {} ELSE {n2 + p[3]})
        \cup (IF p[4] = 0 THEN {} ELSE {n3 + p[4]})

HaltPatterns ==
    {HaltFails(<<a, b, c, d>>) : a \in 0..SendWrites, b \in 0..1,
                                 c \in 0..SendWrites, d \in 0..SendWrites}

Chars == {65, 255}

Strings == UNION {[1..k -> Chars] : k \in 0..MaxLen}

Bitmaps == {<<0, 0, 10, 0, 0, 17, 14, 0>>, <<31, 17, 21, 17, 31, 0, 255, 128>>}

Smiley == <<0, 0, 10, 0, 0, 17, 14, 0>>

NoConfig == [address |-> NoValue, bus |-> NoValue]

(***************************************************************************)
(* Spec: every sequence of public operations on one driver, the byte sink  *)
(* failing at no call or at one of the first MaxFailAt calls of each.      *)
(***************************************************************************)
Init == New("LiquidCrystalLCD", 16, 2, DotSize5x8, NoConfig, Smiley)

DoStart == \E a \in BOOLEAN, F \in FailAt(MaxFailAt) : Start(a, F)
DoHalt == \E F \in FailAt(MaxFailAt) : Halt(F)
DoClear == \E F \in FailAt(MaxFailAt) : Clear(F)
DoHome == \E F \in FailAt(MaxFailAt) : Home(F)
DoShiftDisplayLeft == \E F \in FailAt(MaxFailAt) : ShiftDisplayLeft(F)
DoShiftDisplayRight == \E F \in FailAt(MaxFailAt) : ShiftDisplayRight(F)
DoDisplayOn == \E F \in FailAt(MaxFailAt) : DisplayOn(F)
DoDisplayOff == \E F \in FailAt(MaxFailAt) : DisplayOff(F)
DoUnderlineOn == \E F \in FailAt(MaxFailAt) : UnderlineOn(F)
DoUnderlineOff == \E F \in FailAt(MaxFailAt) : UnderlineOff(F)
DoCursorOn == \E F \in FailAt(MaxFailAt) : CursorOn(F)
DoCursorOff == \E F \in FailAt(MaxFailAt) : CursorOff(F)
DoPrintLeftToRight == \E F \in FailAt(MaxFailAt) : PrintLeftToRight(F)
DoPrintRightToLeft == \E F \in FailAt(MaxFailAt) : PrintRightToLeft(F)
DoAutoScrollOn == \E F \in FailAt(MaxFailAt) : AutoScrollOn(F)
DoAutoScrollOff == \E F \in FailAt(MaxFailAt) : AutoScrollOff(F)
DoBacklightOn == \E F \in FailAt(MaxFailAt) : BacklightOn(F)
DoBacklightOff == \E F \in FailAt(MaxFailAt) : BacklightOff(F)
DoSetCursor == \E c \in {0, 20}, r \in {0, 5}, F \in FailAt(MaxFailAt) : SetCursor(c, r, F)
DoRegisterCharacter == \E F \in FailAt(MaxFailAt) : RegisterCharacter(10, F)
DoWrite == \E str \in {<<65>>, <<charmap.Register>>}, F \in FailAt(MaxFailAt) : Write(str, F)

Next ==
    \/ DoStart
    \/ DoHalt
    \/ DoClear
    \/ DoHome
    \/ DoShiftDisplayLeft
    \/ DoShiftDisplayRight
    \/ DoDisplayOn
    \/ DoDisplayOff
    \/ DoUnderlineOn
    \/ DoUnderlineOff
    \/ DoCursorOn
    \/ DoCursorOff
    \/ DoPrintLeftToRight
    \/ DoPrintRightToLeft
    \/ DoAutoScrollOn
    \/ DoAutoScrollOff
    \/ DoBacklightOn
    \/ DoBacklightOff
    \/ DoSetCursor
    \/ DoRegisterCharacter
    \/ DoWrite

Spec == Init /\ [][Next]_vars

(***************************************************************************)
(* The specifications below follow one call through every input and every  *)
(* failure of the byte sink.  The call is made on a driver that has been   *)
(* set up by failure-free operations (Ready); the behaviour ends with it.  *)
(***************************************************************************)
SetupNames ==
    {"New", "Start", "DisplayOn", "DisplayOff", "UnderlineOn", "UnderlineOff",
     "CursorOn", "CursorOff", "PrintLeftToRight", "PrintRightToLeft",
     "AutoScrollOn", "AutoScrollOff", "BacklightOn", "BacklightOff"}

Ready == last.name \in SetupNames /\ last.err = Nil

SetupStart == Ready /\ Start(TRUE, NoFail)
SetupBacklightOn == Ready /\ BacklightOn(NoFail)
SetupBacklightOff == Ready /\ BacklightOff(NoFail)

\* SpecSend: one lcd.send(val, mode), for every byte and both modes
SendAny == Ready /\ \E val \in Byte, mode \in {0, rs}, F \in FailAt(SendWrites) : Send(val, mode, F)

NextSend ==
    \/ SetupStart
    \/ SetupBacklightOn
    \/ SetupBacklightOff
    \/ SendAny

SpecSend == Init /\ [][NextSend]_vars

\* SpecStart: Start on every construction, failing at every call
ColsSet == {0, 1, 16, 20, 40, 255}

RowsSet == {0, 1, 2, 3, 4, 5, 255}

InitAny ==
    \E c \in ColsSet, r \in RowsSet, d \in {DotSize5x8, DotSize5x10} :
        New("LiquidCrystalLCD", c, r, d, NoConfig, Smiley)

InitStart ==
    \E c \in {16, 20}, r \in RowsSet, d \in {DotSize5x8, DotSize5x10} :
        New("LiquidCrystalLCD", c, r, d, NoConfig, Smiley)

StartAny == Ready /\ \E a \in BOOLEAN, F \in FailAt(StartWrites) : Start(a, F)

NextStart ==
    \/ StartAny
    \/ SetupBacklightOn
    \/ SetupBacklightOff

SpecStart == InitStart /\ [][NextStart]_vars

\* SpecCursor: one SetCursor on every geometry
ByteSamples == {0, 1, 2, 3, 4, 5, 15, 16, 19, 20, 39, 40, 171, 172, 254, 255}

SetCursorAny ==
    Ready /\ \E c \in ByteSamples, r \in ByteSamples, F \in FailAt(SendWrites) : SetCursor(c, r, F)

NextCursor ==
    \/ SetupStart
    \/ SetCursorAny

SpecCursor == InitAny /\ [][NextCursor]_vars

\* SpecWrite: one Write of every string, failing at every call
WriteAny ==
    Ready /\ \E str \in Strings, F \in FailAt(SendWrites * MaxLen) : Write(str, F)

NextWrite ==
    \/ SetupStart
    \/ SetupBacklightOn
    \/ SetupBacklightOff
    \/ WriteAny

SpecWrite == Init /\ [][NextWrite]_vars

\* SpecHalt: one Halt in every state of the mode bytes, under every pattern of failures
SetupDisplayOn == Ready /\ DisplayOn(NoFail)
SetupDisplayOff == Ready /\ DisplayOff(NoFail)
SetupUnderlineOn == Ready /\ UnderlineOn(NoFail)
SetupUnderlineOff == Ready /\ UnderlineOff(NoFail)
SetupCursorOn == Ready /\ CursorOn(NoFail)
SetupCursorOff == Ready /\ CursorOff(NoFail)

HaltAny == Ready /\ \E F \in HaltPatterns : Halt(F)

NextHalt ==
    \/ SetupStart
    \/ SetupBacklightOn
    \/ SetupBacklightOff
    \/ SetupDisplayOn
    \/ SetupDisplayOff
    \/ SetupUnderlineOn
    \/ SetupUnderlineOff
    \/ SetupCursorOn
    \/ SetupCursorOff
    \/ HaltAny

SpecHalt == Init /\ [][NextHalt]_vars

\* SpecGlyph: one RegisterCharacter of every slot, failing at every call,
\* and the Write that follows it
Slots == {0, 5, 7, 8, 13, 255}

InitGlyph == \E b \in Bitmaps : New("LiquidCrystalLCD", 16, 2, DotSize5x8, NoConfig, b)

RegisterAny ==
    Ready /\ \E s \in Slots, F \in FailAt(GlyphWrites) : RegisterCharacter(s, F)

WriteAfterRegister ==
    /\ last.name = "RegisterCharacter"
    /\ \E str \in {<<charmap.Register>>, <<65>>}, F \in FailAt(SendWrites) : Write(str, F)

NextGlyph ==
    \/ SetupStart
    \/ SetupBacklightOn
    \/ SetupBacklightOff
    \/ RegisterAny
    \/ WriteAfterRegister

SpecGlyph == InitGlyph /\ [][NextGlyph]_vars

\* SpecConn: Start under every configuration of the address and the bus
Configs == [address : {NoValue, 63}, bus : {NoValue, 0, 2}]

InitConn == \E cfg \in Configs : New("LiquidCrystalLCD", 16, 2, DotSize5x8, cfg, Smiley)

NextConn ==
    \/ StartAny
    \/ SetupBacklightOn
    \/ SetupBacklightOff

SpecConn == InitConn /\ [][NextConn]_vars

\* SpecFail: every operation, the byte sink failing at each of its calls (Halt:
\* at one call of each of its steps)
Fresh == last.name \in {"New", "Start", "BacklightOn", "BacklightOff"} /\ last.err = Nil

FailStart == Fresh /\ \E a \in BOOLEAN, F \in FailAt(StartWrites) : Start(a, F)

FailToggle ==
    Fresh /\ \E F \in FailAt(SendWrites) :
        \/ DisplayOn(F) \/ DisplayOff(F)
        \/ UnderlineOn(F) \/ UnderlineOff(F)
        \/ CursorOn(F) \/ CursorOff(F)
        \/ PrintLeftToRight(F) \/ PrintRightToLeft(F)
        \/ AutoScrollOn(F) \/ AutoScrollOff(F)
        \/ BacklightOn(F) \/ BacklightOff(F)

FailStateless ==
    Fresh /\ \E F \in FailAt(SendWrites) :
        Clear(F) \/ Home(F) \/ ShiftDisplayLeft(F) \/ ShiftDisplayRight(F)

FailSetCursor == Fresh /\ \E c \in {0, 20}, r \in {0, 5}, F \in FailAt(SendWrites) : SetCursor(c, r, F)

FailRegister == Fresh /\ \E F \in FailAt(GlyphWrites) : RegisterCharacter(13, F)

FailWrite == Fresh /\ \E str \in Strings, F \in FailAt(SendWrites * MaxLen) : Write(str, F)

NextFail ==
    \/ FailStart
    \/ FailToggle
    \/ FailStateless
    \/ FailSetCursor
    \/ FailRegister
    \/ FailWrite
    \/ Fresh /\ \E F \in HaltPatterns : Halt(F)

SpecFail == Init /\ [][NextFail]_vars

\* SpecNibble: one lcd.write4bits(val), for every nibble and both modes
NibbleWrites == Len(write4bits(0, 0, Ok, NoFail).out)

Write4bitsAny ==
    Ready /\ \E n \in 0..15, mode \in {0, rs}, F \in FailAt(NibbleWrites) :
                Write4bits(16 * n + mode, F)

NextNibble ==
    \/ SetupStart
    \/ SetupBacklightOn
    \/ SetupBacklightOff
    \/ Write4bitsAny

SpecNibble == Init /\ [][NextNibble]_vars

\* SpecToggle: every toggle in every state of the mode bytes, failing at every call
ToggleAny ==
    Ready /\ \E F \in FailAt(SendWrites) :
        \/ DisplayOn(F) \/ DisplayOff(F)
        \/ UnderlineOn(F) \/ UnderlineOff(F)
        \/ CursorOn(F) \/ CursorOff(F)
        \/ PrintLeftToRight(F) \/ PrintRightToLeft(F)
        \/ AutoScrollOn(F) \/ AutoScrollOff(F)
        \/ BacklightOn(F) \/ BacklightOff(F)

NextToggle ==
    \/ SetupStart
    \/ ToggleAny

SpecToggle == Init /\ [][NextToggle]_vars

\* SpecDelay: Start of a driver of either type
InitDelay == \E v \in Variants : New(v, 16, 2, DotSize5x8, NoConfig, Smiley)

NextDelay ==
    \/ StartAny
    \/ SetupBacklightOn
    \/ SetupBacklightOff

SpecDelay == InitDelay /\ [][NextDelay]_vars

\* SpecRace: two goroutines toggle the DisplayControl byte of a started driver
RaceOps == {"UnderlineOn", "CursorOn"}

NextRace ==
    \/ SetupStart
    \/ \E t \in Threads, op \in RaceOps : Go(t, op)
    \/ \E t \in Threads : Load(t)
    \/ \E t \in Threads : Store(t)
    \/ \E t \in Threads : Arg(t)
    \/ \E t \in Threads : WriteNext(t)

SpecRace == Init /\ [][NextRace]_vars

\* SpecClear: Clear, failing at every call, after cursor moves, text and
\* other Clears
ClearNames == SetupNames \cup {"SetCursor", "Write", "Clear"}

ReadyClear == last.name \in ClearNames /\ last.err = Nil /\ Started

MoveCursor == ReadyClear /\ \E c \in {0, 5, 20}, r \in {0, 1} : SetCursor(c, r, NoFail)

TypeText == ReadyClear /\ \E str \in {<<65>>, <<65, 255>>} : Write(str, NoFail)

ClearAny == ReadyClear /\ \E F \in FailAt(SendWrites) : Clear(F)

NextClear ==
    \/ SetupStart
    \/ SetupBacklightOn
    \/ SetupBacklightOff
    \/ SetupDisplayOff
    \/ SetupUnderlineOn
    \/ SetupCursorOn
    \/ MoveCursor
    \/ TypeText
    \/ ClearAny

SpecClear == Init /\ [][NextClear]_vars

(***************************************************************************)
(* Reading the log.                                                        *)
(***************************************************************************)
Vals(l) == [i \in 1..Len(l) |-> l[i].val]

AllOk(l) == \A i \in 1..Len(l) : l[i].ok

\* the high and the low nibble of v, each in the high half of a byte
HighNibble(v) == (v \div 16) * 16

LowNibble(v) == (v % 16) * 16

\* the bus bytes of one nibble transfer of control byte b (enable clear):
\* b, b with enable set, b
Pulse(b) == <<b, b + 4, b>>

\* the bus bytes of one transmit of v in mode m (0 or 1) under backlight bl (0 or 8)
Frame(v, m, bl) == Pulse(HighNibble(v) + m + bl) \o Pulse(LowNibble(v) + m + bl)

(***************************************************************************)
(* C1 as stated: a failure-free send(v, m) makes exactly two WriteByte     *)
(* calls, (v & 0xF0) | m | backlight and then ((v << 4) & 0xF0) | m |      *)
(* backlight.                                                              *)
(***************************************************************************)
C1_TwoWrites ==
    (last.name = "send" /\ last.err = Nil) =>
        Vals(log) = <<HighNibble(last.args[1]) + last.args[2] + backLight,
                      LowNibble(last.args[1]) + last.args[2] + backLight>>

(***************************************************************************)
(* C1 amended: a failure-free send(v, m) makes exactly two nibble          *)
(* transfers, the high nibble (v & 0xF0) | m | backlight first and the low *)
(* nibble ((v << 4) & 0xF0) | m | backlight second, and each nibble        *)
(* transfer is three WriteByte calls: the control byte, the control byte   *)
(* with the enable bit set, the control byte again.  Six calls in all.     *)
(***************************************************************************)
C1_SixWrites ==
    (last.name = "send" /\ last.err = Nil) =>
        /\ Vals(log) = Frame(last.args[1], last.args[2], backLight)
        /\ AllOk(log)

C1_Witness ==
    /\ last.name = "send"
    /\ last.args = <<165, rs>>
    /\ last.err = Nil
    /\ backLight = lcdBacklight
    /\ Vals(log) = <<169, 173, 169, 89, 93, 89>>

(***************************************************************************)
(* C2: every byte passed to WriteByte, the priming write of Start          *)
(* included, carries in bit 0x08 the value lcd.backLight has when the      *)
(* write is made; lcd.backLight changes only in BacklightOn and            *)
(* BacklightOff (which Halt calls as its second step: the bytes of Halt's  *)
(* Clear are written under the old value, the later ones under 0).         *)
(***************************************************************************)
BacklightBit(v) == ((v \div 8) % 2) * 8

C2_BitInEveryWrite ==
    /\ \A i \in 1..Len(log) : BacklightBit(log[i].val) = log[i].bl
    /\ last.name # "Halt" => \A i \in 1..Len(log) : log[i].bl = backLight
    /\ last.name = "Halt" =>
          \A i \in 1..Len(log) :
              log[i].bl = IF i <= SendWrites /\ (\A j \in 1..(i - 1) : log[j].ok)
                          THEN last.pre.backLight ELSE lcdNoBacklight

C2_Backlight ==
    /\ []C2_BitInEveryWrite
    /\ [][backLight' # backLight =>
            last'.name \in {"BacklightOn", "BacklightOff", "Halt"}]_vars

\* a second Start, with the backlight on: the priming byte is the backlight bit
C2_Witness ==
    /\ last.name = "Start"
    /\ last.err = Nil
    /\ backLight = lcdBacklight
    /\ Len(log) = StartWrites
    /\ log[1].val = lcdBacklight

(***************************************************************************)
(* C3: a failure-free Start writes the priming byte (the backlight bit     *)
(* alone), then three nibble transfers of 0x30, then one nibble transfer   *)
(* of 0x20, then the two nibble transfers of the FunctionSet command       *)
(* 0x20 | displFn, with nothing in between.                                *)
(***************************************************************************)
Handshake(bl) ==
    <<bl>> \o Pulse(48 + bl) \o Pulse(48 + bl) \o Pulse(48 + bl) \o Pulse(32 + bl)

C3_InitOrder ==
    (last.name = "Start" /\ last.err = Nil) =>
        /\ Len(log) >= 19
        /\ SubSeq(Vals(log), 1, 19) = Handshake(backLight) \o Frame(32 + displFn, 0, backLight)
        /\ AllOk(log)

C3_Witness ==
    /\ last.name = "Start"
    /\ last.err = Nil
    /\ backLight = lcdBacklight
    /\ rows = 2
    /\ SubSeq(Vals(log), 1, 19) =
          <<8, 56, 60, 56, 56, 60, 56, 56, 60, 56, 40, 44, 40, 40, 44, 40, 136, 140, 136>>

(***************************************************************************)
(* C9: the FunctionSet command sent by a failure-free Start is 0x20 | f,   *)
(* where f has bit 0x10 clear, bit 0x08 set exactly when rows > 1, and bit *)
(* 0x04 set exactly when rows = 1 and the dot size is 5x10.                *)
(***************************************************************************)
ExpectedFunction ==
    (IF rows > 1 THEN 8 ELSE 0) + (IF rows = 1 /\ dotSize = DotSize5x10 THEN 4 ELSE 0)

C9_FunctionSet ==
    (last.name = "Start" /\ last.err = Nil) =>
        /\ SubSeq(Vals(log), 14, 19) = Frame(32 + ExpectedFunction, 0, backLight)
        /\ displFn = ExpectedFunction

\* a single row with 5x10 dots
C9_Witness ==
    /\ last.name = "Start"
    /\ last.err = Nil
    /\ rows = 1
    /\ dotSize = DotSize5x10
    /\ backLight = lcdNoBacklight
    /\ SubSeq(Vals(log), 14, 19) = <<32, 36, 32, 64, 68, 64>>

(***************************************************************************)
(* C4: on a geometry with 1 <= rows <= 4 and cols >= 1, SetCursor(col,     *)
(* row) never panics, fails only when the bus fails, and when the bus does *)
(* not fail transmits the one command                                      *)
(* 0x80 | (base[min(row, rows-1)] + min(col, cols-1)), the sum taken as a  *)
(* byte, with base = {0x00, 0x40, 0x14, 0x54}.                             *)
(***************************************************************************)
Min(a, b) == IF a < b THEN a ELSE b

RowBase == <<0, 64, 20, 84>>

CursorAddress(col, row) == (RowBase[Min(row, rows - 1) + 1] + Min(col, cols - 1)) % 256

CursorCommand(col, row) ==
    IF CursorAddress(col, row) >= 128 THEN CursorAddress(col, row)
    ELSE 128 + CursorAddress(col, row)

C4_SetCursor ==
    (last.name = "SetCursor" /\ rows \in 1..4 /\ cols >= 1) =>
        /\ last.err # Panic
        /\ last.err = Nil <=> AllOk(log)
        /\ last.err = Nil =>
              Vals(log) = Frame(CursorCommand(last.args[1], last.args[2]), 0, backLight)

\* 16x2: row 5 is row 1 and column 20 is column 15
C4_Witness ==
    /\ last.name = "SetCursor"
    /\ cols = 16
    /\ rows = 2
    /\ last.args = <<20, 5>>
    /\ last.err = Nil
    /\ Vals(log) = Frame(207, 0, 0)

(***************************************************************************)
(* C5: Write(str) sends the bytes of str in order, each as one Data-mode   *)
(* transmit, and stops at the first WriteByte that fails.  Without a       *)
(* failure it returns (len(str), nil); when a call fails while the N-th    *)
(* byte is being transmitted it returns N-1 and that error, the N-1        *)
(* earlier bytes having been transmitted in full and nothing after the     *)
(* N-th having been attempted.                                             *)
(***************************************************************************)
RECURSIVE Frames(_, _, _)
Frames(str, m, bl) ==
    IF str = <<>> THEN <<>> ELSE Frame(Head(str), m, bl) \o Frames(Tail(str), m, bl)

C5_Write ==
    last.name = "Write" =>
        LET full == Frames(last.args, 1, backLight)
            N == ((Len(log) - 1) \div 6) + 1
        IN  /\ Len(log) <= Len(full)
            /\ Vals(log) = SubSeq(full, 1, Len(log))
            /\ \A i \in 1..(Len(log) - 1) : log[i].ok
            /\ AllOk(log) => /\ last.err = Nil
                             /\ last.n = Len(last.args)
                             /\ Len(log) = Len(full)
            /\ ~AllOk(log) => /\ last.err = IOError(Len(log))
                              /\ last.n = N - 1
                              /\ Len(log) <= 6 * N

\* three bytes, the sink failing at the 2nd call of the 2nd byte
C5_Witness ==
    /\ last.name = "Write"
    /\ Len(last.args) = 3
    /\ Len(log) = 8
    /\ ~log[8].ok
    /\ last.n = 1
    /\ last.err = IOError(8)

(***************************************************************************)
(* C6: Halt attempts Clear, BacklightOff, CursorOff and DisplayOff in this *)
(* order whatever fails: the log is what each step writes up to its first  *)
(* failed call, one step after the other, and the error returned is the    *)
(* failures of the steps in order (nil exactly when no call failed).       *)
(***************************************************************************)
\* the number of calls made by a step of at most len calls that starts after
\* the first `from` calls of the log
StepCalls(from, len) ==
    LET S == {i \in (from + 1)..(from + len) : i <= Len(log) /\ ~log[i].ok}
    IN  IF S = {} THEN len ELSE (CHOOSE i \in S : \A j \in S : i <= j) - from

Failed(e) == ~e.ok

FailedCalls ==
    LET idx == [i \in 1..Len(log) |-> [at |-> i, ok |-> log[i].ok]]
        bad == SelectSeq(idx, Failed)
    IN  [j \in 1..Len(bad) |-> [kind |-> "io", at |-> bad[j].at]]

Prefix(sq, k) == SubSeq(sq, 1, k)

C6_Halt ==
    last.name = "Halt" =>
        LET k1 == StepCalls(0, 6)
            k3 == StepCalls(k1 + 1, 6)
            k4 == StepCalls(k1 + 1 + k3, 6)
            dc3 == last.pre.displCntrl - (last.pre.displCntrl % 2)
            dc4 == dc3 % 4
        IN  /\ Len(log) = k1 + 1 + k3 + k4
            /\ SubSeq(Vals(log), 1, k1) = Prefix(Frame(1, 0, last.pre.backLight), k1)
            /\ log[k1 + 1].val = 0
            /\ SubSeq(Vals(log), k1 + 2, k1 + 1 + k3) = Prefix(Frame(8 + dc3, 0, 0), k3)
            /\ SubSeq(Vals(log), k1 + k3 + 2, k1 + 1 + k3 + k4) = Prefix(Frame(8 + dc4, 0, 0), k4)
            /\ last.err = FailedCalls
            /\ last.err = Nil <=> AllOk(log)

\* every step fails at its first call: four calls, four errors
C6_Witness ==
    /\ last.name = "Halt"
    /\ Len(log) = 4
    /\ last.err = IOError(1) \o IOError(2) \o IOError(3) \o IOError(4)
    /\ last.pre.displCntrl = 7

(***************************************************************************)
(* C7 as stated: after Halt the display bit, the backlight bit and both    *)
(* cursor bits (underline and blink) are clear, and the last               *)
(* DisplayControl command sent carries none of them.                       *)
(***************************************************************************)
C7_NoCursorBit ==
    last.name = "Halt" =>
        /\ displCntrl = 0
        /\ backLight = lcdNoBacklight
        /\ last.err = Nil => SubSeq(Vals(log), 14, 19) = Frame(8, 0, 0)

UnderlineBit(c) == ((c \div 2) % 2) * 2

\* What Halt leaves behind: the display bit, the blink bit and the backlight
\* bit are clear and the underline bit is untouched, Halt making no call of
\* UnderlineOff; its last DisplayControl command is 0x08 | underline bit.
HaltLeavesUnderline ==
    last.name = "Halt" =>
        /\ displCntrl = UnderlineBit(last.pre.displCntrl)
        /\ backLight = lcdNoBacklight
        /\ last.err = Nil => SubSeq(Vals(log), 14, 19) = Frame(8 + displCntrl, 0, 0)

\* Halt with everything on: the underline bit stays
HaltLeavesUnderlineReached ==
    /\ last.name = "Halt"
    /\ last.err = Nil
    /\ last.pre.displCntrl = 7
    /\ last.pre.backLight = lcdBacklight
    /\ displCntrl = 2
    /\ backLight = lcdNoBacklight

(***************************************************************************)
(* C8 as stated: UnderlineOn followed by UnderlineOff leaves displCntrl as *)
(* it was before UnderlineOn, whatever it was.                             *)
(***************************************************************************)
C8_RoundTrip ==
    [][(last.name = "UnderlineOn" /\ last'.name = "UnderlineOff") =>
            displCntrl' = last.pre.displCntrl]_vars

(***************************************************************************)
(* C8 amended: UnderlineOn followed by UnderlineOff leaves displCntrl as   *)
(* it was before UnderlineOn with the underline bit cleared: the same byte *)
(* when the underline bit was clear before, and the byte without its       *)
(* underline bit when it was set.                                          *)
(***************************************************************************)
C8_RoundTripClears ==
    [][(last.name = "UnderlineOn" /\ last'.name = "UnderlineOff") =>
            /\ displCntrl' = last.pre.displCntrl - UnderlineBit(last.pre.displCntrl)
            /\ UnderlineBit(last.pre.displCntrl) = 0 => displCntrl' = last.pre.displCntrl
            /\ displCntrl = last.pre.displCntrl + 2 - UnderlineBit(last.pre.displCntrl)]_vars

\* UnderlineOff on a byte whose underline bit UnderlineOn had set
C8_Witness ==
    /\ last.name = "UnderlineOff"
    /\ last.pre.displCntrl = 7
    /\ displCntrl = 5

(***************************************************************************)
(* C10: a failure-free RegisterCharacter(s, b) sends the command           *)
(* 0x40 | ((s & 7) << 3) and then b[0..7] as eight Data-mode transmits,    *)
(* nothing else, and sets the glyph's Register to s & 7; it fails only     *)
(* when the bus fails.  The Write of that code point which follows sends   *)
(* its one Data-mode transmit after the RegisterCharacter has made all of  *)
(* its 54 calls.                                                           *)
(***************************************************************************)
C10_Registered ==
    last.name = "RegisterCharacter" =>
        /\ last.err = Nil <=> AllOk(log)
        /\ last.err = Nil =>
              /\ Vals(log) = Frame(64 + (last.args[1] % 8) * 8, 0, backLight)
                             \o Frames(charmap.CharMap, 1, backLight)
              /\ charmap.Register = last.args[1] % 8

C10_RegisterThenWrite ==
    /\ []C10_Registered
    /\ [][(/\ last.name = "RegisterCharacter"
           /\ last.err = Nil
           /\ last'.name = "Write"
           /\ last'.args = <<charmap.Register>>
           /\ last'.err = Nil) =>
            /\ Len(log) = 54
            /\ AllOk(log)
            /\ Vals(log') = Frame(last.args[1] % 8, 1, backLight)]_vars

\* slot 13 wraps to 5
C10_Witness ==
    /\ last.name = "RegisterCharacter"
    /\ last.args = <<13>>
    /\ last.err = Nil
    /\ charmap.Register = 5
    /\ charmap.CharMap = Smiley
    /\ SubSeq(Vals(log), 1, 12) = <<96, 100, 96, 128, 132, 128, 1, 5, 1, 1, 5, 1>>

(***************************************************************************)
(* The controller.  The HD44780 sits behind the expander: a byte the sink  *)
(* accepts appears on the expander's pins (bit 0 RS, bit 2 E, bits 4-7     *)
(* D4-D7), and the controller latches RS and D4-D7 when E falls.  In 8-bit *)
(* mode (its state at power-on) a latch is an instruction whose low half   *)
(* is not wired: only FunctionSet (0x2_, 0x3_), which the handshake sends, *)
(* is determined by the high half, any other latch leaves the controller   *)
(* in an unknown state (lost).  In 4-bit mode two latches make one         *)
(* instruction, the high half first.  dc and em are the DisplayControl and *)
(* EntryMode registers, ac the address counter (cg: it addresses CGRAM),   *)
(* got the instructions executed.                                          *)
(***************************************************************************)
\* hi: the first latch of an instruction, in a sequence, until the second comes
NoNibble == <<>>

InSync(dc, em, ac, cg) ==
    [dl |-> 4, lines |-> 2, hi |-> NoNibble, dc |-> dc, em |-> em, ac |-> ac, cg |-> cg,
     lost |-> FALSE, got |-> <<>>]

PowerOn ==
    [dl |-> 8, lines |-> 1, hi |-> NoNibble, dc |-> 0, em |-> 2, ac |-> 0, cg |-> FALSE,
     lost |-> FALSE, got |-> <<>>]

Enabled4(v) == (v \div 4) % 2 = 1

IsOk(e) == e.ok

Falls(e) == e.fall

\* what the controller latches of the calls l: the bytes delivered, where E falls
Nibbles(l) ==
    LET d == SelectSeq(l, IsOk)
        edge == [i \in 1..(Len(d) - 1) |->
                    [rs |-> d[i].val % 2, nib |-> d[i].val \div 16,
                     fall |-> Enabled4(d[i].val) /\ ~Enabled4(d[i + 1].val)]]
    IN  SelectSeq(edge, Falls)

\* the address counter after a read or write of RAM, or a cursor move
NextAddress(c, up) ==
    IF c.cg THEN (IF up THEN c.ac + 1 ELSE c.ac + 63) % 64
    ELSE IF c.lines = 2
         THEN IF up THEN (IF c.ac = 39 THEN 64 ELSE IF c.ac >= 103 THEN 0 ELSE c.ac + 1)
              ELSE (IF c.ac = 64 THEN 39 ELSE IF c.ac = 0 THEN 103 ELSE c.ac - 1)
         ELSE IF up THEN (IF c.ac >= 79 THEN 0 ELSE c.ac + 1)
              ELSE (IF c.ac = 0 THEN 79 ELSE c.ac - 1)

Execute(c, i) ==
    LET c1 == [c EXCEPT !.got = Append(@, i), !.hi = NoNibble]
        v == i.val
    IN  IF i.rs = 1 THEN [c1 EXCEPT !.ac = NextAddress(c, c.em >= 2)]
        ELSE IF v = 0 THEN c1
        ELSE IF v = 1 THEN [c1 EXCEPT !.ac = 0, !.cg = FALSE,
                                      !.em = IF c.em >= 2 THEN c.em ELSE c.em + 2]
        ELSE IF v < 4 THEN [c1 EXCEPT !.ac = 0, !.cg = FALSE]
        ELSE IF v < 8 THEN [c1 EXCEPT !.em = v - 4]
        ELSE IF v < 16 THEN [c1 EXCEPT !.dc = v - 8]
        ELSE IF v < 32 THEN (IF (v \div 8) % 2 = 1 THEN c1
                             ELSE [c1 EXCEPT !.ac = NextAddress(c, (v \div 4) % 2 = 1)])
        ELSE IF v < 64 THEN [c1 EXCEPT !.dl = IF v >= 48 THEN 8 ELSE 4,
                                       !.lines = IF (v \div 8) % 2 = 1 THEN 2 ELSE 1]
        ELSE IF v < 128 THEN [c1 EXCEPT !.ac = v - 64, !.cg = TRUE]
        ELSE [c1 EXCEPT !.ac = v - 128, !.cg = FALSE]

Latch(c, e) ==
    IF c.dl = 8
    THEN IF e.rs = 0 /\ e.nib \in {2, 3}
         THEN [c EXCEPT !.dl = IF e.nib = 3 THEN 8 ELSE 4,
                        !.got = Append(@, [rs |-> 0, val |-> 16 * e.nib])]
         ELSE [c EXCEPT !.lost = TRUE]
    ELSE IF c.hi = NoNibble THEN [c EXCEPT !.hi = <<e.nib>>]
    ELSE Execute(c, [rs |-> e.rs, val |-> 16 * c.hi[1] + e.nib])

RECURSIVE Receive(_, _)
Receive(c, nibs) == IF nibs = <<>> THEN c ELSE Receive(Latch(c, Head(nibs)), Tail(nibs))

(***************************************************************************)
(* C11: Clear on a started driver returns no error when the bus works,     *)
(* sends the ClearDisplay command (0x01) and nothing else, changes no      *)
(* field of the driver, and leaves the controller's address counter at     *)
(* DDRAM address 0 wherever it was; a second Clear right after the first   *)
(* does the same again.                                                    *)
(***************************************************************************)
C11_ClearOnce ==
    last.name = "Clear" =>
        /\ AllOk(log) <=> last.err = Nil
        /\ ModeBytes = last.pre
        /\ last.err = Nil =>
              /\ Vals(log) = Frame(1, 0, backLight)
              /\ \A a \in 0..127, g \in BOOLEAN :
                    LET c == Receive(InSync(displCntrl, displMode, a, g), Nibbles(log))
                    IN  /\ c.ac = 0
                        /\ ~c.cg
                        /\ c.hi = NoNibble
                        /\ c.got = <<[rs |-> 0, val |-> 1]>>

C11_ClearTwice ==
    /\ []C11_ClearOnce
    /\ [][last'.name = "Clear" => UNCHANGED <<lcd, charmap>>]_vars
    /\ [][(last.name = "Clear" /\ last.err = Nil /\ last'.name = "Clear" /\ last'.err = Nil)
            => log' = log]_vars

\* Clear with the backlight on
C11_Witness ==
    /\ last.name = "Clear"
    /\ last.err = Nil
    /\ backLight = lcdBacklight
    /\ Vals(log) = <<8, 12, 8, 24, 28, 24>>
    /\ Receive(InSync(4, 2, 79, FALSE), Nibbles(log)).ac = 0

(***************************************************************************)
(* C12: Start asks for the connection at the configured address and bus,   *)
(* 0x27 and 1 where none was configured.  When the acquisition fails Start *)
(* returns that error without a single WriteByte call and without changing *)
(* a mode byte; otherwise it holds the connection and goes on to write.    *)
(***************************************************************************)
C12_Acquisition ==
    last.name = "Start" =>
        /\ last.args = <<IF config.address = NoValue THEN 39 ELSE config.address,
                         IF config.bus = NoValue THEN 1 ELSE config.bus>>
        /\ last.err = ConnectionError =>
              /\ log = <<>>
              /\ ModeBytes = last.pre
              /\ ~Started
        /\ last.err # ConnectionError =>
              /\ connection = [address |-> last.args[1], bus |-> last.args[2]]
              /\ Len(log) >= 1
              /\ last.err = Nil <=> AllOk(log)

\* the acquisition fails at address 0x3F of the default bus
C12_Witness ==
    /\ last.name = "Start"
    /\ last.err = ConnectionError
    /\ config = [address |-> 63, bus |-> NoValue]
    /\ last.args = <<63, 1>>
    /\ log = <<>>

(***************************************************************************)
(* C13: in every operation but Halt the first WriteByte call that fails is *)
(* the last call the operation makes, and its error is what the operation  *)
(* returns; an operation none of whose calls failed returns no error       *)
(* (Start apart, when it could not acquire the connection).                *)
(***************************************************************************)
C13_FailFast ==
    last.name \notin {"New", "Halt"} =>
        /\ \A i \in 1..(Len(log) - 1) : log[i].ok
        /\ ~AllOk(log) => last.err = IOError(Len(log))
        /\ AllOk(log) => \/ last.err = Nil
                         \/ last.name = "Start" /\ last.err = ConnectionError /\ log = <<>>

\* Start failing at the enable pulse of its first nibble
C13_Witness ==
    /\ last.name = "Start"
    /\ Len(log) = 3
    /\ Vals(log) = <<0, 48, 52>>
    /\ ~log[3].ok
    /\ last.err = IOError(3)

(***************************************************************************)
(* C14: after the FunctionSet command a failure-free Start sends           *)
(* DisplayControl 0x0C, ClearDisplay 0x01, EntryModeSet 0x06 and           *)
(* ReturnHome 0x02, in this order and nothing else (43 WriteByte calls in  *)
(* all), and leaves displCntrl = 0x04 and displMode = 0x02 whatever they   *)
(* were before.                                                            *)
(***************************************************************************)
C14_StartTail ==
    (last.name = "Start" /\ last.err = Nil) =>
        /\ Len(log) = 43
        /\ SubSeq(Vals(log), 20, 43) =
              Frame(12, 0, backLight) \o Frame(1, 0, backLight)
              \o Frame(6, 0, backLight) \o Frame(2, 0, backLight)
        /\ displCntrl = 4
        /\ displMode = 2

\* a second Start, on mode bytes of 0x03 and 0x01
C14_Witness ==
    /\ last.name = "Start"
    /\ last.err = Nil
    /\ last.pre.displCntrl = 3
    /\ last.pre.displMode = 1
    /\ displCntrl = 4
    /\ displMode = 2
    /\ SubSeq(Vals(log), 20, 25) = <<0, 4, 0, 192, 196, 192>>

(***************************************************************************)
(* C15 as stated: a write4bits call makes at most two WriteByte calls: the *)
(* control byte (nibble | mode | backlight) with the enable bit set, then  *)
(* the same byte with the enable bit clear.                                *)
(***************************************************************************)
C15_TwoWrites ==
    last.name = "write4bits" =>
        /\ Len(log) <= 2
        /\ Vals(log) = Prefix(<<last.args[1] + backLight + 4, last.args[1] + backLight>>,
                              Len(log))

(***************************************************************************)
(* C15 amended: a write4bits call makes at most three WriteByte calls,     *)
(* three when none fails: the control byte (nibble | mode | backlight)     *)
(* with the enable bit clear, the same byte with the enable bit set, the   *)
(* same byte with the enable bit clear.  No other byte is written, and the *)
(* write with the enable bit set comes before the write that clears it.    *)
(***************************************************************************)
C15_ThreeWrites ==
    last.name = "write4bits" =>
        /\ Len(log) <= 3
        /\ Vals(log) = Prefix(Pulse(last.args[1] + backLight), Len(log))
        /\ \A i \in 1..(Len(log) - 1) : log[i].ok
        /\ AllOk(log) => Len(log) = 3 /\ last.err = Nil
        /\ ~AllOk(log) => last.err = IOError(Len(log))

\* the nibble 0xA in data mode, the backlight on
C15_Witness ==
    /\ last.name = "write4bits"
    /\ last.args = <<161>>
    /\ last.err = Nil
    /\ backLight = lcdBacklight
    /\ Vals(log) = <<169, 173, 169>>

(***************************************************************************)
(* The toggles: the byte each one changes, the bit it sets or clears, and  *)
(* the opcode of the command that carries the byte.                        *)
(***************************************************************************)
Toggle ==
    [DisplayOn        |-> [reg |-> "displCntrl", bit |-> 4, on |-> TRUE,  op |-> 8],
     DisplayOff       |-> [reg |-> "displCntrl", bit |-> 4, on |-> FALSE, op |-> 8],
     UnderlineOn      |-> [reg |-> "displCntrl", bit |-> 2, on |-> TRUE,  op |-> 8],
     UnderlineOff     |-> [reg |-> "displCntrl", bit |-> 2, on |-> FALSE, op |-> 8],
     CursorOn         |-> [reg |-> "displCntrl", bit |-> 1, on |-> TRUE,  op |-> 8],
     CursorOff        |-> [reg |-> "displCntrl", bit |-> 1, on |-> FALSE, op |-> 8],
     PrintLeftToRight |-> [reg |-> "displMode",  bit |-> 2, on |-> TRUE,  op |-> 4],
     PrintRightToLeft |-> [reg |-> "displMode",  bit |-> 2, on |-> FALSE, op |-> 4],
     AutoScrollOn     |-> [reg |-> "displMode",  bit |-> 1, on |-> TRUE,  op |-> 4],
     AutoScrollOff    |-> [reg |-> "displMode",  bit |-> 1, on |-> FALSE, op |-> 4],
     BacklightOn      |-> [reg |-> "backLight",  bit |-> 8, on |-> TRUE,  op |-> 0],
     BacklightOff     |-> [reg |-> "backLight",  bit |-> 8, on |-> FALSE, op |-> 0]]

HasBit(x, b) == (x \div b) % 2 = 1

\* x with bit b set (on) or cleared
WithBit(x, b, on) ==
    IF on THEN (IF HasBit(x, b) THEN x ELSE x + b) ELSE (IF HasBit(x, b) THEN x - b ELSE x)

Toggled(name, pre) == WithBit(pre[Toggle[name].reg], Toggle[name].bit, Toggle[name].on)

FrameNames ==
    {"ShiftDisplayLeft", "ShiftDisplayRight", "Clear", "Home", "SetCursor",
     "RegisterCharacter", "Write"}

C17_ShiftCommands ==
    /\ (last.name = "ShiftDisplayLeft" /\ last.err = Nil) => Vals(log) = Frame(24, 0, backLight)
    /\ (last.name = "ShiftDisplayRight" /\ last.err = Nil) => Vals(log) = Frame(28, 0, backLight)
    /\ displFn = NewDisplFn(rows, dotSize)

C17_Frame ==
    /\ []C17_ShiftCommands
    /\ [][/\ displFn' = displFn
          /\ last'.name \in FrameNames => ModeBytes' = ModeBytes
          /\ last'.name \in DOMAIN Toggle =>
                /\ \A f \in DOMAIN ModeBytes \ {Toggle[last'.name].reg} :
                      ModeBytes'[f] = ModeBytes[f]
                /\ \A b \in {1, 2, 4, 8, 16, 32, 64, 128} \ {Toggle[last'.name].bit} :
                      HasBit(ModeBytes'[Toggle[last'.name].reg], b)
                      = HasBit(ModeBytes[Toggle[last'.name].reg], b)]_vars

\* a display shift on mode bytes that are all set
C17_Witness ==
    /\ last.name = "ShiftDisplayRight"
    /\ last.err = Nil
    /\ Vals(log) = Frame(28, 0, 8)
    /\ last.pre = [displFn |-> 8, displCntrl |-> 7, displMode |-> 3, backLight |-> 8]
    /\ ModeBytes = last.pre

(***************************************************************************)
(* C18: a Start that acquired the connection sleeps at least 40 ms between *)
(* the acquisition and its first WriteByte call, in a LiquidCrystalLCD and *)
(* in a GobotLCD.                                                          *)
(***************************************************************************)
PowerOnSettle == 40 * Millisecond

C18_SettleDelay ==
    (last.name = "Start" /\ last.err # ConnectionError) => last.slept >= PowerOnSettle

\* What the two types do sleep before the first write of Start.
SettleByVariant ==
    (last.name = "Start" /\ last.err # ConnectionError) =>
        last.slept = IF variant = "GobotLCD" THEN 50000 ELSE 50

(***************************************************************************)
(* C19: when two goroutines each call a toggle (UnderlineOn or CursorOn)   *)
(* and the calls do not overlap, as in single-threaded use, the            *)
(* DisplayControl byte ends with the bits of both and the bus carries two  *)
(* complete commands one after the other, the last of them carrying the    *)
(* final byte.  When the calls overlap all twelve WriteByte calls are      *)
(* still made and the byte still holds the display bit and the bit of at   *)
(* least one of the calls, but nothing more is guaranteed: C19_Race is     *)
(* reached, where one update is lost and the bytes of the two commands     *)
(* are interleaved.                                                        *)
(***************************************************************************)
AllDone == \A t \in Threads : threads[t].pc = "done"

IsFrames(v) ==
    /\ Len(v) = 12
    /\ \E a \in 8..15, b \in 8..15 :
          /\ SubSeq(v, 1, 6) = Frame(a, 0, backLight)
          /\ SubSeq(v, 7, 12) = Frame(b, 0, backLight)

C19_Sequential ==
    AllDone =>
        /\ Len(log) = 12
        /\ HasBit(displCntrl, 4)
        /\ \E t \in Threads : HasBit(displCntrl, Toggle[threads[t].op].bit)
        /\ (\A t \in Threads : ~threads[t].raced) =>
              /\ \A t \in Threads : HasBit(displCntrl, Toggle[threads[t].op].bit)
              /\ IsFrames(Vals(log))
              /\ SubSeq(Vals(log), 7, 12) = Frame(8 + displCntrl, 0, backLight)

\* both calls returned, the underline bit is lost, and the bus does not carry
\* two commands one after the other
C19_Race ==
    /\ AllDone
    /\ {threads[t].op : t \in Threads} = {"UnderlineOn", "CursorOn"}
    /\ displCntrl = 5
    /\ ~IsFrames(Vals(log))

(***************************************************************************)
(* C20: when no call of an operation failed, displCntrl is the low 3 bits  *)
(* of the last DisplayControl command (0x08..0x0F) the operation delivered *)
(* in full, or what it was before the operation if it delivered none, and  *)
(* displMode is the low 2 bits of the last EntryModeSet command            *)
(* (0x04..0x07) in the same way; so in a failure-free run, from the first  *)
(* Start on, both are those of the most recent such command.  displCntrl   *)
(* stays within 3 bits and displMode within 2, and a toggle delivers one   *)
(* command, of its own opcode.  The commands are those the controller      *)
(* executes, be it in its power-on state (for Start) or in step.           *)
(***************************************************************************)
\* the operand of the last command of opcode op (a power of 2) among the
\* instructions g, or else d
LastOperand(g, op, d) ==
    LET S == {i \in 1..Len(g) : g[i].rs = 0 /\ g[i].val >= op /\ g[i].val < 2 * op}
    IN  IF S = {} THEN d ELSE g[CHOOSE i \in S : \A j \in S : j <= i].val - op

PublicNames ==
    DOMAIN Toggle \cup FrameNames \cup {"Start", "Halt"}

C20_Tracked ==
    /\ displCntrl \in 0..7
    /\ displMode \in 0..3
    /\ (last.name \in PublicNames /\ last.err = Nil) =>
          \A c0 \in {InSync(last.pre.displCntrl, last.pre.displMode, 0, FALSE)}
                    \cup (IF last.name = "Start" THEN {PowerOn} ELSE {}) :
              LET c == Receive(c0, Nibbles(log))
              IN  /\ ~c.lost
                  /\ c.dl = 4
                  /\ c.hi = NoNibble
                  /\ displCntrl = LastOperand(c.got, 8, last.pre.displCntrl)
                  /\ displMode = LastOperand(c.got, 4, last.pre.displMode)
                  /\ c.dc = displCntrl
                  /\ (last.name \in DOMAIN Toggle /\ Toggle[last.name].op > 0) =>
                        /\ Len(c.got) = 1
                        /\ c.got[1].rs = 0
                        /\ c.got[1].val \div Toggle[last.name].op = 1

\* RegisterCharacter sends 0x0A and 0x0E as data: they are no DisplayControl
\* commands, and displCntrl stays 0x07
C20_Witness ==
    /\ last.name = "RegisterCharacter"
    /\ last.err = Nil
    /\ displCntrl = 7
    /\ displMode = 1
    /\ Receive(InSync(7, 1, 0, FALSE), Nibbles(log)).got[4] = [rs |-> 1, val |-> 10]
    /\ Receive(InSync(7, 1, 0, FALSE), Nibbles(log)).dc = 7

(***************************************************************************)
(* C21: no operation leaves the enable line high unless a call failed.     *)
(* Every call that delivered a byte with the enable bit (0x04) set is      *)
(* followed at once by a call writing the same byte with only that bit     *)
(* cleared; an operation that returned no error and wrote something wrote  *)
(* last a byte with the enable bit clear; and where the last byte an       *)
(* operation delivered has the enable bit set, the operation returned an   *)
(* error and the next call is the failed write releasing that byte (Halt   *)
(* goes on after it, with calls that failed too).                          *)
(***************************************************************************)
C21_EnableReleased ==
    last.name # "New" =>
        /\ \A i \in 1..Len(log) :
              (log[i].ok /\ Enabled4(log[i].val)) =>
                  /\ i < Len(log)
                  /\ log[i + 1].val = log[i].val - en
        /\ (last.err = Nil /\ log # <<>>) =>
              /\ log[Len(log)].ok
              /\ ~Enabled4(log[Len(log)].val)
        /\ \A i \in 1..Len(log) :
              (/\ log[i].ok
               /\ Enabled4(log[i].val)
               /\ \A j \in (i + 1)..Len(log) : ~log[j].ok) =>
                  /\ last.err # Nil
                  /\ i < Len(log)
                  /\ ~log[i + 1].ok
                  /\ log[i + 1].val = log[i].val - en

\* CursorOn leaves the line high when its last releasing write fails
C21_Witness ==
    /\ last.name = "CursorOn"
    /\ Len(log) = 6
    /\ log[5].ok
    /\ Enabled4(log[5].val)
    /\ ~log[6].ok
    /\ log[6].val = log[5].val - en
    /\ last.err = IOError(6)

(***************************************************************************)
(* C22: on every geometry, rows = 0, cols = 0 and rows > 4 included,       *)
(* SetCursor(col, row) resolves the row to an index 0..3 of the row        *)
(* address table, does not panic, and when the bus does not fail transmits *)
(* one SetDDRAMAddress command (0x80..0xFF).  The code does not do this:   *)
(* with rows = 0, rows - 1 is 255 as a byte and no row is clamped, and     *)
(* with rows > 4 rows clamp to rows - 1 > 3; the index is then outside the *)
(* table (SetCursorOutOfTable is what the code does).                      *)
(***************************************************************************)
\* the index SetCursor uses for the requested row last.args[2]
ResolvedRow ==
    IF last.args[2] > (rows + 255) % 256 THEN (rows + 255) % 256 ELSE last.args[2]

OneAddressCommand ==
    \E a \in 128..255 : Vals(log) = Frame(a, 0, backLight)

C22_InTable ==
    last.name = "SetCursor" =>
        /\ ResolvedRow \in 0..3
        /\ last.err # Panic
        /\ AllOk(log) => OneAddressCommand

\* SetCursor panics exactly when the resolved row is outside the table, and
\* otherwise transmits one SetDDRAMAddress command unless the bus fails
SetCursorOutOfTable ==
    last.name = "SetCursor" =>
        /\ last.err = Panic <=> ResolvedRow > 3
        /\ ResolvedRow > 3 <=> (rows \notin 1..4 /\ last.args[2] > 3)
        /\ last.err = Panic => log = <<>>
        /\ (last.err # Panic /\ AllOk(log)) => OneAddressCommand

\* rows = 0: SetCursor(0, 4) indexes the table at 4
SetCursorPanicReached ==
    /\ last.name = "SetCursor"
    /\ rows = 0
    /\ last.args = <<0, 4>>
    /\ last.err = Panic
    /\ log = <<>>

====
